---------------------------- MODULE Spec2Model ----------------------------
(***************************************************************************)
(* Model of the astrolab image-processing route                            *)
(* (src/src/app/api/process-image/route.ts): the retry wrapper             *)
(* retryWithBackoff, the fact-lookup stage fetchAstroFacts, the prompt     *)
(* builder buildEditPrompt, the image-edit stage runAstroEdit and the      *)
(* POST handler that sequences them; and of the page that calls the route  *)
(* (src/unnamed/part_000, HomePage) with its preset table                  *)
(* (src/src/config/presets.ts).                                            *)
(*                                                                         *)
(* Every await of the code is a step boundary: a remote generateContent    *)
(* call is "in flight" between the action that issues it and the action    *)
(* that settles it, and a backoff sleep is pending between the action that *)
(* sets the timer and the action that fires it.                            *)
(***************************************************************************)
EXTENDS Integers, Sequences, FiniteSets, TLC

VARIABLES
    pc,          \* position of the POST handler (or of the retry harness)
    req,         \* the multipart form of the request: file and payload fields
    params,      \* EditParams parsed from the payload
    astroFacts,  \* POST's local astroFacts
    factsArg,    \* the objectName argument passed to fetchAstroFacts
    editReq,     \* what runAstroEdit built: prompt lines and imageConfig
    response,    \* the NextResponse returned by POST
    rw,          \* one retryWithBackoff activation per wrapped operation
    calls,       \* log of every invocation of a wrapped operation
    waits,       \* log of every backoff sleep that elapsed
    given,       \* (retries, delay) a direct caller passed to retryWithBackoff
    ui           \* the page HomePage: its React state and its processImage run

vars == <<pc, req, params, astroFacts, factsArg, editReq, response, rw, calls,
          waits, given, ui>>

---------------------------------------------------------------------------
(* Bounds of the model.                                                    *)

MaxRetries == 4        \* retry budgets 0..MaxRetries for the direct caller
MaxBaseDelay == 2      \* base delays 1..MaxBaseDelay besides the default
MaxNameLen == 3        \* object names of up to MaxNameLen UTF-16 code units
MaxEdits == 2          \* control changes made on the page in one session

(* Program constants.                                                      *)

DefaultRetries == 3
DefaultDelay == 1000
RateLimitStatus == 429

---------------------------------------------------------------------------
(* JavaScript values, as far as the route handles them.                    *)

FUndef == [t |-> "undefined", s |-> "", a |-> <<>>]
FStr(x) == [t |-> "str", s |-> x, a |-> <<>>]
FArr(x) == [t |-> "arr", s |-> "", a |-> x]

NoFields == [object_name |-> FUndef, object_type |-> FUndef,
             canonical_colors |-> FUndef,
             key_structures_to_preserve |-> FUndef,
             unrealistic_edits_to_avoid |-> FUndef]

VUndef == [t |-> "undefined", n |-> 0, s |-> "", o |-> NoFields]
VNull == [t |-> "null", n |-> 0, s |-> "", o |-> NoFields]
VNum(k) == [t |-> "num", n |-> k, s |-> "", o |-> NoFields]
VStr(x) == [t |-> "str", n |-> 0, s |-> x, o |-> NoFields]
VObj(f) == [t |-> "obj", n |-> 0, s |-> "", o |-> f]

\* JavaScript truthiness: null, undefined, 0 and "" are falsy.
Truthy(v) ==
    CASE v.t = "undefined" -> FALSE
      [] v.t = "null" -> FALSE
      [] v.t = "num" -> v.n # 0
      [] v.t = "str" -> v.s # ""
      [] OTHER -> TRUE

(* Text that may hold JSON.  A text is undefined, empty, malformed, or     *)
(* well-formed JSON denoting a value.                                      *)

TextUndefined ==
    [defined |-> FALSE, empty |-> TRUE, wellFormed |-> FALSE, denotes |-> VUndef]
TextEmpty ==
    [defined |-> TRUE, empty |-> TRUE, wellFormed |-> FALSE, denotes |-> VUndef]
TextMalformed ==
    [defined |-> TRUE, empty |-> FALSE, wellFormed |-> FALSE, denotes |-> VUndef]
JsonText(v) ==
    [defined |-> TRUE, empty |-> FALSE, wellFormed |-> TRUE, denotes |-> v]

\* text || ""
OrEmpty(text) == IF ~text.defined \/ text.empty THEN TextEmpty ELSE text

(* Thrown values.  hasStatus = FALSE stands for a thrown value without a   *)
(* status property (new Error(...), TypeError, SyntaxError).               *)

NoErr == [isError |-> FALSE, hasStatus |-> FALSE, status |-> 0, message |-> ""]
ApiError(st, msg) ==
    [isError |-> TRUE, hasStatus |-> TRUE, status |-> st, message |-> msg]
PlainError(msg) ==
    [isError |-> TRUE, hasStatus |-> FALSE, status |-> 0, message |-> msg]
\* a thrown value that is not an Error instance (throw "boom")
ThrownString == [isError |-> FALSE, hasStatus |-> FALSE, status |-> 0,
                 message |-> "boom"]

\* what a wrapped operation or a remote call may throw: an API error with a
\* status (429 or another), an Error without one, a value that is no Error
RemoteErrors ==
    { ApiError(RateLimitStatus, "rate limited"),
      ApiError(500, "internal"),
      PlainError("fetch failed"),
      ThrownString }

(* The completion of a call: it returned val or threw err.                 *)

Returned(v) == [kind |-> "returned", val |-> v, err |-> NoErr]
Threw(e) == [kind |-> "threw", val |-> VUndef, err |-> e]

\* JSON.parse(text): the value a well-formed text denotes, else a SyntaxError
JSONParse(text) ==
    IF text.defined /\ ~text.empty /\ text.wellFormed
    THEN Returned(text.denotes)
    ELSE Threw(PlainError("Unexpected token"))

---------------------------------------------------------------------------
(* retryWithBackoff.  An activation is a frame: where it is (rpc), the     *)
(* retries and delay arguments of the current (tail-recursive) call, and   *)
(* what it finally returned or threw.                                      *)

Ops == {"facts", "edit", "op"}

IdleFrame == [rpc |-> "none", retries |-> 0, delay |-> 0, val |-> VUndef,
              err |-> NoErr]

\* retryWithBackoff(fn, retries, delay) entered: fn() is about to be invoked
EnterRetry(r, d) == [IdleFrame EXCEPT !.rpc = "call", !.retries = r, !.delay = d]

\* retryWithBackoff(fn) with the default arguments
EnterRetryDefault == EnterRetry(DefaultRetries, DefaultDelay)

\* err?.status === 429
IsRateLimit(e) == e.hasStatus /\ e.status = RateLimitStatus

\* Faulty variant: every failure is retried, whatever its status
AfterAttempt_AnyError(f, c) ==
    IF c.kind = "returned"
    THEN [f EXCEPT !.rpc = "returned", !.val = c.val]
    ELSE IF f.retries > 0
         THEN [f EXCEPT !.rpc = "sleep"]
         ELSE [f EXCEPT !.rpc = "thrown", !.err = c.err]

\* Faulty variant: off by one, a retry is still made when the budget is 0
AfterAttempt_OneMore(f, c) ==
    IF c.kind = "returned"
    THEN [f EXCEPT !.rpc = "returned", !.val = c.val]
    ELSE IF f.retries >= 0 /\ IsRateLimit(c.err)
         THEN [f EXCEPT !.rpc = "sleep"]
         ELSE [f EXCEPT !.rpc = "thrown", !.err = c.err]

\* the try/catch around `await fn()`: c is the completion of fn()
AfterAttempt(f, c) ==
    IF c.kind = "returned"
    THEN [f EXCEPT !.rpc = "returned", !.val = c.val]
    ELSE IF f.retries > 0 /\ IsRateLimit(c.err)
         THEN [f EXCEPT !.rpc = "sleep"]
         ELSE [f EXCEPT !.rpc = "thrown", !.err = c.err]

\* Faulty variant: the recursive call passes delay on without doubling it
AfterSleep_NoDoubling(f) ==
    [f EXCEPT !.rpc = "call", !.retries = @ - 1]

\* the timer fired: return retryWithBackoff(fn, retries - 1, delay * 2)
AfterSleep(f) ==
    [f EXCEPT !.rpc = "call", !.retries = @ - 1, !.delay = @ * 2]

\* an entry of the invocation log: the operation and how it completed
\* (responded: its remote call returned a response; raw: the text of that
\* response, for the fact lookup; body: its candidates, for the image edit)
LogEntry(o, c, responded, raw, body) ==
    [op |-> o, kind |-> c.kind, val |-> c.val, err |-> c.err,
     responded |-> responded, raw |-> raw, body |-> body]
Pending(o) ==
    [op |-> o, kind |-> "pending", val |-> VUndef, err |-> NoErr,
     responded |-> FALSE, raw |-> TextUndefined, body |-> <<>>]
\* the pending entry of operation o
PendingAt(o) ==
    CHOOSE i \in 1..Len(calls) : calls[i].op = o /\ calls[i].kind = "pending"

\* fn() invoked: the wrapped operation starts and awaits its remote call
Retry_Invoke(o) ==
    /\ rw[o].rpc = "call"
    /\ rw' = [rw EXCEPT ![o].rpc = "inflight"]
    /\ calls' = Append(calls, Pending(o))
    /\ UNCHANGED <<pc, req, params, astroFacts, factsArg, editReq, response,
                   waits, given, ui>>

\* the wrapped operation completed with c: shared by the three operations
Settle(o, c, responded, raw, body) ==
    /\ rw[o].rpc = "inflight"
    /\ rw' = [rw EXCEPT ![o] = AfterAttempt(rw[o], c)]
    /\ calls' = [calls EXCEPT ![PendingAt(o)] = LogEntry(o, c, responded, raw, body)]
    /\ UNCHANGED <<pc, req, params, astroFacts, factsArg, editReq, response,
                   waits, given, ui>>

\* setTimeout(resolve, delay) elapsed
Retry_Wake(o) ==
    /\ rw[o].rpc = "sleep"
    /\ waits' = Append(waits, [op |-> o, ms |-> rw[o].delay])
    /\ rw' = [rw EXCEPT ![o] = AfterSleep(rw[o])]
    /\ UNCHANGED <<pc, req, params, astroFacts, factsArg, editReq, response,
                   calls, given, ui>>

---------------------------------------------------------------------------
(* Object names are strings of UTF-16 code units; " " is white space.      *)

Chars == {" ", "M"}
IsSpace(ch) == ch = " "

RECURSIVE TrimStart(_)
TrimStart(cs) ==
    IF cs # <<>> /\ IsSpace(Head(cs)) THEN TrimStart(Tail(cs)) ELSE cs

RECURSIVE TrimEnd(_)
TrimEnd(cs) ==
    IF cs # <<>> /\ IsSpace(cs[Len(cs)])
    THEN TrimEnd(SubSeq(cs, 1, Len(cs) - 1))
    ELSE cs

\* String.prototype.trim
Trim(cs) == TrimEnd(TrimStart(cs))

\* String.prototype.toLowerCase, on the strings the model uses
ToLowerCase(x) ==
    CASE x = "Unknown" -> "unknown"
      [] x = "UNKNOWN" -> "unknown"
      [] x = "Red" -> "red"
      [] OTHER -> x

(* EditParams.  object_name is string | null.                              *)

NullName == [isNull |-> TRUE, chars |-> <<>>]
Name(cs) == [isNull |-> FALSE, chars |-> cs]

PresetIds == {"nebula", "galaxy", "cluster", "widefield", "planetary",
              "lunar", "solar", "generic"}

MkParams(name, preset, sci, aspect, size, mode, sl) ==
    [isNull |-> FALSE, object_name |-> name, preset_id |-> preset,
     aspect_ratio |-> aspect, image_size |-> size,
     noise_strength |-> sl.noise, stretch_strength |-> sl.stretch,
     star_reduction |-> sl.star, saturation |-> sl.sat,
     background_neutralization |-> sl.bg, sky_darkening |-> sl.sky,
     scientific_mode |-> sci, star_correction_mode |-> mode]

NebulaSliders ==
    [noise |-> 52, stretch |-> 62, star |-> 55, sat |-> 55, bg |-> 65, sky |-> 10]
EdgeSliders ==
    [noise |-> 0, stretch |-> 100, star |-> 20, sat |-> 60, bg |-> 0, sky |-> 100]

\* the payload "null": JSON.parse gives null, not an object
NullParams ==
    [MkParams(NullName, "", FALSE, "", "", "", NebulaSliders) EXCEPT !.isNull = TRUE]

---------------------------------------------------------------------------
(* buildEditPrompt.  The document is the sequence of the strings pushed to *)
(* `lines`; each is named by its section and carries what was interpolated *)
(* into it (a string s, a number n or an object name c).                   *)

Line(sec) == [sec |-> sec, s |-> "", n |-> 0, c |-> <<>>]
LineS(sec, x) == [sec |-> sec, s |-> x, n |-> 0, c |-> <<>>]
LineN(sec, k) == [sec |-> sec, s |-> "", n |-> k, c |-> <<>>]
LineC(sec, cs) == [sec |-> sec, s |-> "", n |-> 0, c |-> cs]

\* `${field}` of a field that is a string or missing
FieldText(f) == IF f.t = "str" THEN f.s ELSE "undefined"

RoleLines == << Line("role_expert"), Line("role_task") >>

\* if (params.object_name)
TargetLines(p) ==
    IF ~p.object_name.isNull /\ p.object_name.chars # <<>>
    THEN << LineC("target_object", p.object_name.chars) >>
    ELSE << >>

\* Faulty variant: the sentinel is compared without toLowerCase()
ColourLines_CaseSensitive(a) ==
    IF a.o.canonical_colors.s # "unknown"
    THEN << LineS("canonical_colours", a.o.canonical_colors.s) >>
    ELSE << >>

ColourLines(a) ==
    IF ToLowerCase(a.o.canonical_colors.s) # "unknown"
    THEN << LineS("canonical_colours", a.o.canonical_colors.s) >>
    ELSE << >>

ItemLines(sec, items) == [i \in 1..Len(items) |-> LineS(sec, items[i])]

\* Faulty variant: the header is pushed without the length test
StructureLines_AlwaysHeader(a) ==
    << Line("structures_header") >> \o
    ItemLines("structure_item", a.o.key_structures_to_preserve.a)

StructureLines(a) ==
    IF Len(a.o.key_structures_to_preserve.a) > 0
    THEN << Line("structures_header") >> \o
         ItemLines("structure_item", a.o.key_structures_to_preserve.a)
    ELSE << >>

AvoidLines(a) ==
    IF Len(a.o.unrealistic_edits_to_avoid.a) > 0
    THEN << Line("avoid_header") >> \o
         ItemLines("avoid_item", a.o.unrealistic_edits_to_avoid.a)
    ELSE << >>

\* Faulty variant: the else is missing, the fallback sentence is always pushed
FactsLines_NoElse(a) ==
    IF Truthy(a)
    THEN << Line("facts_header"),
            LineS("interpreted_name", FieldText(a.o.object_name)),
            LineS("object_type", FieldText(a.o.object_type)),
            Line("fallback_generic") >>
    ELSE << Line("fallback_generic") >>

\* if (astro) { ... } else { ... }
FactsLines(a) ==
    IF Truthy(a)
    THEN << Line("facts_header"),
            LineS("interpreted_name", FieldText(a.o.object_name)),
            LineS("object_type", FieldText(a.o.object_type)) >> \o
         ColourLines(a) \o StructureLines(a) \o AvoidLines(a)
    ELSE << Line("fallback_generic") >>

\* The property reads that throw a TypeError when astro is truthy but not
\* an AstroFacts: .toLowerCase() of a canonical_colors that is no string,
\* .length of a list that is missing.
FactsTypeError(a) ==
    IF ~Truthy(a) THEN ""
    ELSE IF a.o.canonical_colors.t # "str"
         THEN "Cannot read properties of undefined (reading 'toLowerCase')"
    ELSE IF a.o.key_structures_to_preserve.t = "undefined"
            \/ a.o.unrealistic_edits_to_avoid.t = "undefined"
         THEN "Cannot read properties of undefined (reading 'length')"
    ELSE ""

WorkflowLines == << Line("workflow") >>

\* Faulty variant: the selected star-correction mode is stated after the sliders
SliderLines_StatesMode(p) ==
    << Line("sliders_header"),
       LineN("slider_background", p.background_neutralization),
       LineN("slider_stretch", p.stretch_strength),
       LineN("slider_noise", p.noise_strength),
       LineN("slider_star", p.star_reduction),
       LineN("slider_saturation", p.saturation),
       LineN("slider_sky", p.sky_darkening),
       LineS("star_mode_selected", p.star_correction_mode) >>

SliderLines(p) ==
    << Line("sliders_header"),
       LineN("slider_background", p.background_neutralization),
       LineN("slider_stretch", p.stretch_strength),
       LineN("slider_noise", p.noise_strength),
       LineN("slider_star", p.star_reduction),
       LineN("slider_saturation", p.saturation),
       LineN("slider_sky", p.sky_darkening) >>

RubricLines ==
    << Line("sky_rubric"), Line("star_mode_rubric"), Line("star_strength_rubric") >>

\* Faulty variant: the scientific-mode test is dropped and both blocks are pushed
ScientificLines_Both(p) ==
    << Line("scientific_on"), Line("scientific_off") >>

\* if (params.scientific_mode) { ... } else { ... }
ScientificLines(p) ==
    IF p.scientific_mode
    THEN << Line("scientific_on") >>
    ELSE << Line("scientific_off") >>

\* Faulty variant: the nebula case has no break and falls into the galaxy case
PresetLines_Fallthrough(p) ==
    IF p.preset_id = "nebula"
    THEN << LineS("preset_line", p.preset_id), Line("preset_nebula"),
            Line("preset_galaxy") >>
    ELSE << LineS("preset_line", p.preset_id),
            CASE p.preset_id = "galaxy" -> Line("preset_galaxy")
              [] p.preset_id = "cluster" -> Line("preset_cluster")
              [] p.preset_id = "widefield" -> Line("preset_widefield")
              [] p.preset_id = "planetary" -> Line("preset_planetary")
              [] p.preset_id = "lunar" -> Line("preset_lunar")
              [] p.preset_id = "solar" -> Line("preset_solar")
              [] OTHER -> Line("preset_generic") >>

\* switch (params.preset_id), after the "Preset: <id>" line
PresetLines(p) ==
    << LineS("preset_line", p.preset_id),
       CASE p.preset_id = "nebula" -> Line("preset_nebula")
         [] p.preset_id = "galaxy" -> Line("preset_galaxy")
         [] p.preset_id = "cluster" -> Line("preset_cluster")
         [] p.preset_id = "widefield" -> Line("preset_widefield")
         [] p.preset_id = "planetary" -> Line("preset_planetary")
         [] p.preset_id = "lunar" -> Line("preset_lunar")
         [] p.preset_id = "solar" -> Line("preset_solar")
         [] OTHER -> Line("preset_generic") >>

ClosingLines == << Line("closing") >>

\* Faulty variant: the scientific-mode block is pushed before the rubrics
PromptLines_Reordered(p, a) ==
    RoleLines \o TargetLines(p) \o FactsLines(a) \o WorkflowLines \o
    SliderLines(p) \o ScientificLines(p) \o RubricLines \o PresetLines(p) \o
    ClosingLines

PromptLines(p, a) ==
    RoleLines \o TargetLines(p) \o FactsLines(a) \o WorkflowLines \o
    SliderLines(p) \o RubricLines \o ScientificLines(p) \o PresetLines(p) \o
    ClosingLines

\* buildEditPrompt(params, astro): the document, or the TypeError thrown
buildEditPrompt(p, a) ==
    IF FactsTypeError(a) # ""
    THEN [ok |-> FALSE, lines |-> <<>>, err |-> PlainError(FactsTypeError(a))]
    ELSE [ok |-> TRUE, lines |-> PromptLines(p, a), err |-> NoErr]

---------------------------------------------------------------------------
(* fetchAstroFacts: the operation it wraps.                                *)

Facts(colours, keep, avoid) ==
    VObj([object_name |-> FStr("Orion Nebula (M42)"),
          object_type |-> FStr("emission nebula"),
          canonical_colors |-> FStr(colours),
          key_structures_to_preserve |-> FArr(keep),
          unrealistic_edits_to_avoid |-> FArr(avoid)])

\* the "unsure" object the lookup prompt asks the model for
UnknownFacts ==
    VObj([object_name |-> FStr("M"), object_type |-> FStr("unknown"),
          canonical_colors |-> FStr("unknown"),
          key_structures_to_preserve |-> FArr(<<>>),
          unrealistic_edits_to_avoid |-> FArr(<<>>)])

\* JSON values that are not of the AstroFacts shape
MisshapenValues ==
    { VNum(42), VNum(0), VStr("abc"),
      VObj([Facts("red", <<>>, <<>>).o EXCEPT !.canonical_colors = FUndef]),
      VObj([Facts("red", <<>>, <<>>).o EXCEPT
                !.key_structures_to_preserve = FUndef]) }

\* response.text of the text model
FactTexts ==
    { TextUndefined, TextEmpty, TextMalformed, JsonText(VNull),
      JsonText(Facts("red", <<"core">>, <<"neon colours">>)),
      JsonText(UnknownFacts) } \cup
    { JsonText(v) : v \in MisshapenValues }

\* Faulty variant: no try/catch around JSON.parse, a SyntaxError escapes
FactsFn_NoCatch(text) == JSONParse(OrEmpty(text))

\* lines 88-95: const text = response.text || ""; try { return JSON.parse(text) }
\* catch { return null }
FactsFn(text) ==
    LET parsed == JSONParse(OrEmpty(text))
    IN  IF parsed.kind = "returned" THEN Returned(parsed.val) ELSE Returned(VNull)

\* generateContent of the text model settles: with a response, or rejected
Facts_Settle ==
    \/ \E text \in FactTexts : Settle("facts", FactsFn(text), TRUE, text, <<>>)
    \/ \E e \in RemoteErrors : Settle("facts", Threw(e), FALSE, TextUndefined, <<>>)

---------------------------------------------------------------------------
(* runAstroEdit: the request it builds and the operation it wraps.         *)

NoEditReq ==
    [built |-> FALSE, lines |-> <<>>, astro |-> VNull, imageSize |-> "",
     hasAspectRatio |-> FALSE, aspectRatio |-> "", mimeType |-> ""]

\* Faulty variant: aspectRatio is always copied into imageConfig
EditRequest_AlwaysAspect(p, a, mime, doc) ==
    [built |-> TRUE, lines |-> doc, astro |-> a, imageSize |-> p.image_size,
     hasAspectRatio |-> TRUE, aspectRatio |-> p.aspect_ratio, mimeType |-> mime]

\* lines 389-397: imageConfig, with aspectRatio only when it is not "auto"
EditRequest(p, a, mime, doc) ==
    [built |-> TRUE, lines |-> doc, astro |-> a, imageSize |-> p.image_size,
     hasAspectRatio |-> (p.aspect_ratio # "" /\ p.aspect_ratio # "auto"),
     aspectRatio |-> IF p.aspect_ratio # "" /\ p.aspect_ratio # "auto"
                     THEN p.aspect_ratio ELSE "",
     mimeType |-> mime]

TextPart == [inline |-> FALSE, data |-> ""]
ImagePart(d) == [inline |-> TRUE, data |-> d]
Candidate(ps) == [hasContent |-> TRUE, parts |-> ps]
EmptyCandidate == [hasContent |-> FALSE, parts |-> <<>>]

\* response.candidates of the image model (undefined is the empty list)
ImageResponses ==
    { << >>,
      << EmptyCandidate >>,
      << Candidate(<< >>) >>,
      << Candidate(<< TextPart >>) >>,
      << Candidate(<< ImagePart("IMG1") >>) >>,
      << Candidate(<< TextPart, ImagePart(""), ImagePart("IMG1"), ImagePart("IMG2") >>) >>,
      << Candidate(<< TextPart >>), Candidate(<< ImagePart("IMG2") >>) >>,
      << EmptyCandidate, Candidate(<< ImagePart("IMG2") >>) >> }

\* part.inlineData?.data is truthy
HasImage(part) == part.inline /\ part.data # ""

\* Faulty variant: without an image part an empty string is returned
EditFn_EmptyResult(cands) ==
    IF cands = << >> \/ ~cands[1].hasContent
    THEN Threw(PlainError("No candidates returned from Nano Banana Pro."))
    ELSE LET ps == cands[1].parts
             hits == { i \in 1..Len(ps) : HasImage(ps[i]) }
         IN  IF hits = {}
             THEN Returned(VStr(""))
             ELSE Returned(VStr(ps[CHOOSE i \in hits : \A j \in hits : i <= j].data))

\* Faulty variant: the loop does not return at the first image part, the
\* last one wins
EditFn_LastImage(cands) ==
    IF cands = << >> \/ ~cands[1].hasContent
    THEN Threw(PlainError("No candidates returned from Nano Banana Pro."))
    ELSE LET ps == cands[1].parts
             hits == { i \in 1..Len(ps) : HasImage(ps[i]) }
         IN  IF hits = {}
             THEN Threw(PlainError("No image part returned from Nano Banana Pro."))
             ELSE Returned(VStr(ps[CHOOSE i \in hits : \A j \in hits : j <= i].data))

\* lines 411-423: the first image part of the first candidate, or an Error
EditFn(cands) ==
    IF cands = << >> \/ ~cands[1].hasContent
    THEN Threw(PlainError("No candidates returned from Nano Banana Pro."))
    ELSE LET ps == cands[1].parts
             hits == { i \in 1..Len(ps) : HasImage(ps[i]) }
         IN  IF hits = {}
             THEN Threw(PlainError("No image part returned from Nano Banana Pro."))
             ELSE Returned(VStr(ps[CHOOSE i \in hits : \A j \in hits : i <= j].data))

\* generateContent of the image model settles: with a response, or rejected
Edit_Settle ==
    \/ \E cands \in ImageResponses :
          Settle("edit", EditFn(cands), TRUE, TextUndefined, cands)
    \/ \E e \in RemoteErrors : Settle("edit", Threw(e), FALSE, TextUndefined, <<>>)

---------------------------------------------------------------------------
(* The page HomePage (src/unnamed/part_000) and its preset table           *)
(* (src/src/config/presets.ts).                                            *)

\* PRESET_DEFAULTS
PRESET_DEFAULTS ==
    [id \in PresetIds |->
        CASE id = "nebula" ->
               [sliders |-> [noise |-> 52, stretch |-> 62, star |-> 55,
                             sat |-> 55, bg |-> 65, sky |-> 10],
                scientific_mode |-> TRUE,
                star_correction_mode |-> "moderate_reduction"]
          [] id = "galaxy" ->
               [sliders |-> [noise |-> 45, stretch |-> 55, star |-> 35,
                             sat |-> 45, bg |-> 60, sky |-> 25],
                scientific_mode |-> TRUE,
                star_correction_mode |-> "mild_reduction"]
          [] id = "cluster" ->
               [sliders |-> [noise |-> 38, stretch |-> 48, star |-> 25,
                             sat |-> 52, bg |-> 45, sky |-> 40],
                scientific_mode |-> TRUE,
                star_correction_mode |-> "mild_reduction"]
          [] id = "widefield" ->
               [sliders |-> [noise |-> 55, stretch |-> 65, star |-> 30,
                             sat |-> 55, bg |-> 65, sky |-> 20],
                scientific_mode |-> TRUE,
                star_correction_mode |-> "mild_reduction"]
          [] id = "planetary" ->
               [sliders |-> [noise |-> 50, stretch |-> 55, star |-> 70,
                             sat |-> 45, bg |-> 40, sky |-> 80],
                scientific_mode |-> TRUE,
                star_correction_mode |-> "none"]
          [] id = "lunar" ->
               [sliders |-> [noise |-> 45, stretch |-> 50, star |-> 80,
                             sat |-> 15, bg |-> 50, sky |-> 82],
                scientific_mode |-> TRUE,
                star_correction_mode |-> "none"]
          [] id = "solar" ->
               [sliders |-> [noise |-> 50, stretch |-> 55, star |-> 75,
                             sat |-> 40, bg |-> 60, sky |-> 85],
                scientific_mode |-> TRUE,
                star_correction_mode |-> "none"]
          [] OTHER ->
               [sliders |-> [noise |-> 50, stretch |-> 60, star |-> 45,
                             sat |-> 50, bg |-> 58, sky |-> 18],
                scientific_mode |-> TRUE,
                star_correction_mode |-> "moderate_reduction"]]

DEFAULT_PRESET == "nebula"
defaultConfig == PRESET_DEFAULTS[DEFAULT_PRESET]

\* A Response as processImage reads it.  rejects: fetch() itself failed;
\* text: the body as res.text() gives it; parses: res.json() resolves;
\* error, image, facts: data.error and whether data.edited_image_base64 and
\* data.astro_facts are truthy.
HttpResponse(st, text, parses, error, image, facts) ==
    [rejects |-> FALSE, ok |-> st \in 200..299, status |-> st, text |-> text,
     parses |-> parses, error |-> error, image |-> image, facts |-> facts]
FetchRejected ==
    [rejects |-> TRUE, ok |-> FALSE, status |-> 0, text |-> "",
     parses |-> FALSE, error |-> "", image |-> FALSE, facts |-> FALSE]

\* the activation of processImage: where it is suspended, the file and the
\* payload of the FormData it sent, and the Response it got
IdleRun ==
    [pc |-> "idle", file |-> "", payload |-> NullParams, res |-> FetchRejected]

\* useState initial values; "" stands for null (file, URLs, facts, error).
\* A result (editedUrl, astroFacts) is named by the file of the request it
\* answers.  edits counts the control changes made so far.
InitialUI ==
    [file |-> "", originalUrl |-> "", editedUrl |-> "",
     objectName |-> <<>>, presetId |-> DEFAULT_PRESET,
     aspectRatio |-> "auto", imageSize |-> "2K",
     noiseStrength |-> defaultConfig.sliders.noise,
     stretchStrength |-> defaultConfig.sliders.stretch,
     starReduction |-> defaultConfig.sliders.star,
     saturation |-> defaultConfig.sliders.sat,
     backgroundNeutralization |-> defaultConfig.sliders.bg,
     skyDarkening |-> defaultConfig.sliders.sky,
     scientificMode |-> defaultConfig.scientific_mode,
     starCorrectionMode |-> defaultConfig.star_correction_mode,
     astroFacts |-> "", isProcessing |-> FALSE, error |-> "",
     run |-> IdleRun, edits |-> 0]

routeVars == <<pc, req, params, astroFacts, factsArg, editReq, response, rw,
               calls, waits, given>>

\* what the user can enter into the controls
UIPresets == {"galaxy", "lunar"}
SliderFields == {"noiseStrength", "stretchStrength", "starReduction",
                 "saturation", "backgroundNeutralization", "skyDarkening"}
SliderInputs == {0}
UIModes == {"none", "starless_emphasis"}
UINames == { <<"M", " ">> }
UIAspects == {"16:9"}
UISizes == {"4K"}

\* Faulty variant: the star-correction mode of the preset is not applied
applyPresetDefaults_KeepsMode(id) ==
    /\ ui.edits < MaxEdits
    /\ LET cfg == PRESET_DEFAULTS[id]
       IN  ui' = [ui EXCEPT
                    !.presetId = id,
                    !.backgroundNeutralization = cfg.sliders.bg,
                    !.skyDarkening = cfg.sliders.sky,
                    !.stretchStrength = cfg.sliders.stretch,
                    !.noiseStrength = cfg.sliders.noise,
                    !.starReduction = cfg.sliders.star,
                    !.saturation = cfg.sliders.sat,
                    !.scientificMode = cfg.scientific_mode,
                    !.edits = @ + 1]
    /\ UNCHANGED routeVars

\* lines 151-162
applyPresetDefaults(id) ==
    /\ ui.edits < MaxEdits
    /\ LET cfg == PRESET_DEFAULTS[id]
       IN  ui' = [ui EXCEPT
                    !.presetId = id,
                    !.backgroundNeutralization = cfg.sliders.bg,
                    !.skyDarkening = cfg.sliders.sky,
                    !.stretchStrength = cfg.sliders.stretch,
                    !.noiseStrength = cfg.sliders.noise,
                    !.starReduction = cfg.sliders.star,
                    !.saturation = cfg.sliders.sat,
                    !.scientificMode = cfg.scientific_mode,
                    !.starCorrectionMode = cfg.star_correction_mode,
                    !.edits = @ + 1]
    /\ UNCHANGED routeVars

\* SliderField's onChange(Number(e.target.value)) with the setter of field k
setSlider(k, v) ==
    /\ ui.edits < MaxEdits
    /\ ui' = [ui EXCEPT ![k] = v,
                        !.edits = @ + 1]
    /\ UNCHANGED routeVars

\* line 386
setScientificMode(b) ==
    /\ ui.edits < MaxEdits
    /\ ui' = [ui EXCEPT !.scientificMode = b,
                        !.edits = @ + 1]
    /\ UNCHANGED routeVars

\* lines 363-365
setStarCorrectionMode(m) ==
    /\ ui.edits < MaxEdits
    /\ ui' = [ui EXCEPT !.starCorrectionMode = m,
                        !.edits = @ + 1]
    /\ UNCHANGED routeVars

\* line 231
setObjectName(cs) ==
    /\ ui.edits < MaxEdits
    /\ ui' = [ui EXCEPT !.objectName = cs,
                        !.edits = @ + 1]
    /\ UNCHANGED routeVars

\* line 263
setAspectRatio(ar) ==
    /\ ui.edits < MaxEdits
    /\ ui' = [ui EXCEPT !.aspectRatio = ar,
                        !.edits = @ + 1]
    /\ UNCHANGED routeVars

\* lines 288-290
setImageSize(sz) ==
    /\ ui.edits < MaxEdits
    /\ ui' = [ui EXCEPT !.imageSize = sz,
                        !.edits = @ + 1]
    /\ UNCHANGED routeVars

\* what the file input hands to onFileChange: no file (the dialog was
\* cancelled) or a file of some MIME type
NoSelection == [present |-> FALSE, id |-> "", type |-> ""]
Selected(id, type) == [present |-> TRUE, id |-> id, type |-> type]
FileSelections ==
    { NoSelection, Selected("A", "image/png"), Selected("B", "image/jpeg"),
      Selected("G", "image/gif") }

\* lines 57-74; it does not touch a processImage run that is in flight
onFileChange(sel) ==
    /\ IF ~sel.present
       THEN UNCHANGED ui
       ELSE IF sel.type \notin {"image/png", "image/jpeg", "image/jpg"}
       THEN ui' = [ui EXCEPT !.error = "Please upload a PNG or JPEG image."]
       ELSE ui' = [ui EXCEPT !.error = "", !.editedUrl = "", !.astroFacts = "",
                             !.originalUrl = sel.id, !.file = sel.id]
    /\ UNCHANGED routeVars

\* lines 87-100: the payload built from the state processImage closed over
Payload(u) ==
    MkParams(IF Trim(u.objectName) = <<>> THEN NullName ELSE Name(Trim(u.objectName)),
             u.presetId, u.scientificMode, u.aspectRatio, u.imageSize,
             u.starCorrectionMode,
             [noise |-> u.noiseStrength, stretch |-> u.stretchStrength,
              star |-> u.starReduction, sat |-> u.saturation,
              bg |-> u.backgroundNeutralization, sky |-> u.skyDarkening])

\* lines 76-107, up to `await fetch(...)`.  The button that calls it is
\* disabled while isProcessing (line 395).
processImage ==
    /\ ~ui.isProcessing
    /\ IF ui.file = ""
       THEN ui' = [ui EXCEPT !.error = "Please upload an astro image first."]
       ELSE ui' = [ui EXCEPT
                    !.error = "", !.isProcessing = TRUE, !.editedUrl = "",
                    !.astroFacts = "",
                    !.run = [pc |-> "fetch", file |-> ui.file,
                             payload |-> Payload(ui), res |-> FetchRejected]]
    /\ UNCHANGED routeVars

\* `HTTP ${res.status}`
HttpStatusText(st) ==
    CASE st = 500 -> "HTTP 500"
      [] st = 502 -> "HTTP 502"
      [] OTHER -> "HTTP"

\* the responses fetch may resolve with, and its rejection
UIResponses ==
    { FetchRejected,
      HttpResponse(200, "{image,facts}", TRUE, "", TRUE, TRUE),
      HttpResponse(200, "{image,null}", TRUE, "", TRUE, FALSE),
      HttpResponse(200, "{error}", TRUE, "Edit failed", FALSE, FALSE),
      HttpResponse(200, "<html>", FALSE, "", FALSE, FALSE),
      HttpResponse(500, "{error}", TRUE, "Unknown server error", FALSE, FALSE),
      HttpResponse(502, "", FALSE, "", FALSE, FALSE) }

\* Faulty variant: the catch without the finally
Fail_NoFinally(u, msg) == [u EXCEPT !.error = msg, !.run = IdleRun]

\* lines 133-138: catch (err) { setError(err.message ...) } finally
\* { setIsProcessing(false) }, which ends the run
Fail(u, msg) == [u EXCEPT !.error = msg, !.isProcessing = FALSE, !.run = IdleRun]

\* lines 127-132 and the finally: the results of the response are shown
Succeed(u, res) ==
    [u EXCEPT !.editedUrl = IF res.image THEN u.run.file ELSE @,
              !.astroFacts = IF res.facts THEN u.run.file ELSE @,
              !.isProcessing = FALSE, !.run = IdleRun]

\* lines 107-112: fetch settled
Fetch_Settle(res) ==
    /\ ui.run.pc = "fetch"
    /\ ui' = IF res.rejects
             THEN Fail(ui, "Failed to fetch")
             ELSE [ui EXCEPT !.run.res = res,
                             !.run.pc = IF res.ok THEN "json" ELSE "text"]
    /\ UNCHANGED routeVars

\* lines 113-115: res.text() settled; throw new Error(text || `HTTP ...`)
Text_Settle ==
    /\ ui.run.pc = "text"
    /\ ui' = Fail(ui, IF ui.run.res.text # "" THEN ui.run.res.text
                      ELSE HttpStatusText(ui.run.res.status))
    /\ UNCHANGED routeVars

\* lines 117-132: res.json() settled
Json_Settle ==
    /\ ui.run.pc = "json"
    /\ ui' = IF ~ui.run.res.parses
             THEN Fail(ui, "Unexpected token")
             ELSE IF ui.run.res.error # ""
             THEN Fail(ui, ui.run.res.error)
             ELSE Succeed(ui, ui.run.res)
    /\ UNCHANGED routeVars

---------------------------------------------------------------------------
(* The POST handler.                                                       *)

NoResponse ==
    [status |-> 0, error |-> "", edited_image_base64 |-> "", astro_facts |-> VNull]

\* NextResponse.json({ error }, { status })
ErrorResponse(st, msg) ==
    [status |-> st, error |-> msg, edited_image_base64 |-> "", astro_facts |-> VNull]

\* Faulty variant: the catch answers without a status, that is with 200
CatchResponse_Ok(e) ==
    ErrorResponse(200, IF e.isError THEN e.message ELSE "Unknown error")

\* lines 473-480: the catch of the handler
CatchResponse(e) ==
    ErrorResponse(500, IF e.isError THEN e.message ELSE "Unknown error")

\* lines 469-472
SuccessResponse(img, facts) ==
    [status |-> 200, error |-> "", edited_image_base64 |-> img.s,
     astro_facts |-> facts]

Names ==
    {NullName} \cup
    { Name(cs) : cs \in UNION { [1..k -> Chars] : k \in 0..MaxNameLen } }

\* the parameter documents of the requests: two settings, every name
PostParams ==
    { MkParams(n, "nebula", TRUE, "auto", "2K", "moderate_reduction", NebulaSliders)
        : n \in Names } \cup
    { MkParams(n, "lunar", FALSE, "16:9", "4K", "none", EdgeSliders)
        : n \in Names }

MkRequest(formOk, file, type, kind, text) ==
    [formOk |-> formOk, file |-> file, fileType |-> type,
     payload |-> [kind |-> kind, text |-> text]]

NoRequest == MkRequest(FALSE, "missing", "", "missing", TextUndefined)

Requests ==
    { MkRequest(FALSE, "missing", "", "missing", TextUndefined) } \cup
    { MkRequest(TRUE, f, "", "string", JsonText(p))
        : f \in {"missing", "string"}, p \in {NullParams} } \cup
    { MkRequest(TRUE, "file", "", k, TextUndefined) : k \in {"missing", "file"} } \cup
    { MkRequest(TRUE, "file", "", "string", t)
        : t \in {TextEmpty, TextMalformed, JsonText(NullParams)} } \cup
    { MkRequest(TRUE, "file", ty, "string", JsonText(p))
        : ty \in {"", "image/jpeg"}, p \in PostParams }

\* a request arrives
POST_Receive ==
    /\ pc = "idle"
    /\ \E r \in Requests : req' = r
    /\ pc' = "formData"
    /\ UNCHANGED <<params, astroFacts, factsArg, editReq, response, rw, calls,
                   waits, given, ui>>

\* lines 431-450, after `await req.formData()`: the two field checks and
\* JSON.parse(payloadRaw)
POST_CheckForm ==
    /\ pc = "formData"
    /\ LET parsed == JSONParse(req.payload.text)
       IN  IF ~req.formOk
           THEN /\ response' = CatchResponse(PlainError("Failed to parse body as FormData."))
                /\ pc' = "done"
                /\ UNCHANGED params
           ELSE IF req.file # "file"
           THEN /\ response' = ErrorResponse(400, "Missing or invalid image file.")
                /\ pc' = "done"
                /\ UNCHANGED params
           ELSE IF req.payload.kind # "string" \/ req.payload.text.empty
           THEN /\ response' = ErrorResponse(400, "Missing metadata payload.")
                /\ pc' = "done"
                /\ UNCHANGED params
           ELSE IF parsed.kind = "threw"
           THEN /\ response' = CatchResponse(parsed.err)
                /\ pc' = "done"
                /\ UNCHANGED params
           ELSE /\ params' = parsed.val
                /\ pc' = "arrayBuffer"
                /\ UNCHANGED response
    /\ UNCHANGED <<req, astroFacts, factsArg, editReq, rw, calls, waits, given, ui>>

\* Faulty variant: the length test is made before trimming
ShouldLookup_Untrimmed(p) ==
    /\ ~p.object_name.isNull
    /\ p.object_name.chars # <<>>
    /\ Len(p.object_name.chars) > 1

\* line 458: params.object_name && params.object_name.trim().length > 1
ShouldLookup(p) ==
    /\ ~p.object_name.isNull
    /\ p.object_name.chars # <<>>
    /\ Len(Trim(p.object_name.chars)) > 1

\* Faulty variant: both stages are started together (Promise.all)
StartFacts_Concurrent(frames) ==
    [frames EXCEPT !["facts"] = EnterRetryDefault, !["edit"] = EnterRetryDefault]

\* line 73: fetchAstroFacts enters retryWithBackoff with the defaults
StartFacts(frames) == [frames EXCEPT !["facts"] = EnterRetryDefault]

\* Faulty variant: the edit stage goes on with what the lookup's wrapper had left
StartEdit_Shared(frames) ==
    [frames EXCEPT !["edit"] =
        IF frames["facts"].rpc = "none"
        THEN EnterRetryDefault
        ELSE EnterRetry(frames["facts"].retries, frames["facts"].delay)]

\* line 399: runAstroEdit enters retryWithBackoff with the defaults
StartEdit(frames) == [frames EXCEPT !["edit"] = EnterRetryDefault]

\* lines 452-460, after `await file.arrayBuffer()`: the lookup decision
POST_Lookup ==
    /\ pc = "arrayBuffer"
    /\ IF params.isNull
       THEN /\ response' = CatchResponse(PlainError(
                    "Cannot read properties of null (reading 'object_name')"))
            /\ pc' = "done"
            /\ UNCHANGED <<factsArg, rw>>
       ELSE IF ShouldLookup(params)
       THEN /\ factsArg' = Trim(params.object_name.chars)
            /\ rw' = StartFacts(rw)
            /\ pc' = "await_facts"
            /\ UNCHANGED response
       ELSE /\ pc' = "run_edit"
            /\ UNCHANGED <<factsArg, rw, response>>
    /\ UNCHANGED <<req, params, astroFacts, editReq, calls, waits, given, ui>>

\* Faulty variant: a failed lookup is swallowed and the request goes on without facts
FactsResult_Swallow(f) ==
    IF f.rpc = "thrown"
    THEN [pc |-> "run_edit", facts |-> VNull, response |-> NoResponse]
    ELSE [pc |-> "run_edit", facts |-> f.val, response |-> NoResponse]

\* line 459: astroFacts = await fetchAstroFacts(...), or the catch
FactsResult(f) ==
    IF f.rpc = "thrown"
    THEN [pc |-> "done", facts |-> VNull, response |-> CatchResponse(f.err)]
    ELSE [pc |-> "run_edit", facts |-> f.val, response |-> NoResponse]

POST_FactsDone ==
    /\ pc = "await_facts"
    /\ rw["facts"].rpc \in {"returned", "thrown"}
    /\ LET r == FactsResult(rw["facts"])
       IN  /\ pc' = r.pc
           /\ astroFacts' = r.facts
           /\ response' = r.response
    /\ UNCHANGED <<req, params, factsArg, editReq, rw, calls, waits, given, ui>>

\* file.type || "image/png"
MimeType(r) == IF r.fileType = "" THEN "image/png" ELSE r.fileType

\* lines 462-467 and 368-399: runAstroEdit builds the prompt and the request
\* and enters the retry wrapper; a throw of buildEditPrompt reaches the catch
POST_RunEdit ==
    /\ pc = "run_edit"
    /\ LET doc == buildEditPrompt(params, astroFacts)
       IN  IF ~doc.ok
           THEN /\ response' = CatchResponse(doc.err)
                /\ pc' = "done"
                /\ UNCHANGED <<editReq, rw>>
           ELSE /\ editReq' = EditRequest(params, astroFacts, MimeType(req), doc.lines)
                /\ rw' = StartEdit(rw)
                /\ pc' = "await_edit"
                /\ UNCHANGED response
    /\ UNCHANGED <<req, params, astroFacts, factsArg, calls, waits, given, ui>>

\* lines 462-472: editedBase64 = await runAstroEdit(...), or the catch
POST_EditDone ==
    /\ pc = "await_edit"
    /\ rw["edit"].rpc \in {"returned", "thrown"}
    /\ response' = IF rw["edit"].rpc = "thrown"
                   THEN CatchResponse(rw["edit"].err)
                   ELSE SuccessResponse(rw["edit"].val, astroFacts)
    /\ pc' = "done"
    /\ UNCHANGED <<req, params, astroFacts, factsArg, editReq, rw, calls, waits,
                   given, ui>>

Init ==
    /\ pc = "idle"
    /\ req = NoRequest
    /\ params = NullParams
    /\ astroFacts = VNull
    /\ factsArg = <<>>
    /\ editReq = NoEditReq
    /\ response = NoResponse
    /\ rw = [o \in Ops |-> IdleFrame]
    /\ calls = <<>>
    /\ waits = <<>>
    /\ given = [retries |-> DefaultRetries, delay |-> DefaultDelay]
    /\ ui = InitialUI

Next ==
    \/ POST_Receive
    \/ POST_CheckForm
    \/ POST_Lookup
    \/ \E o \in {"facts", "edit"} : Retry_Invoke(o)
    \/ Facts_Settle
    \/ \E o \in {"facts", "edit"} : Retry_Wake(o)
    \/ POST_FactsDone
    \/ POST_RunEdit
    \/ Edit_Settle
    \/ POST_EditDone

Spec == Init /\ [][Next]_vars

\* the event loop runs every pending continuation, every remote call settles
\* and every timer fires
FairSpec == Spec /\ WF_vars(Next)

---------------------------------------------------------------------------
(* A direct caller of retryWithBackoff with an arbitrary operation: each   *)
(* invocation of the operation returns a value or throws.                  *)

OpCompletions ==
    { Returned(VStr("v1")), Returned(VStr("v2")) } \cup
    { Threw(e) : e \in RemoteErrors }

Op_Settle ==
    \E c \in OpCompletions : Settle("op", c, c.kind = "returned", TextUndefined, <<>>)

InitRetry ==
    /\ pc = "harness"
    /\ req = NoRequest
    /\ params = NullParams
    /\ astroFacts = VNull
    /\ factsArg = <<>>
    /\ editReq = NoEditReq
    /\ response = NoResponse
    /\ \E r \in 0..MaxRetries, d \in {DefaultDelay} \cup (1..MaxBaseDelay) :
          /\ given = [retries |-> r, delay |-> d]
          /\ rw = [o \in Ops |-> IF o = "op" THEN EnterRetry(r, d) ELSE IdleFrame]
    /\ calls = <<>>
    /\ waits = <<>>
    /\ ui = InitialUI

NextRetry ==
    \/ Retry_Invoke("op")
    \/ Op_Settle
    \/ Retry_Wake("op")

SpecRetry == InitRetry /\ [][NextRetry]_vars

\* the event loop runs every pending continuation and timer
FairSpecRetry == SpecRetry /\ WF_vars(NextRetry)

---------------------------------------------------------------------------
(* A direct caller of buildEditPrompt and of the request construction of   *)
(* runAstroEdit, with every EditParams of the bounded sets and every       *)
(* optional AstroFacts.                                                    *)

PromptNames == { NullName, Name(<< >>), Name(<<"M">>) }
PromptPresets == PresetIds \cup {"comet"}
StarModes == {"none", "mild_reduction", "moderate_reduction",
              "strong_reduction", "starless_emphasis"}

PromptParams ==
    { MkParams(n, pr, sci, ar, sz, md, sl)
        : n \in PromptNames, pr \in PromptPresets, sci \in BOOLEAN,
          ar \in {"auto", "16:9", "1:1"}, sz \in {"1K", "2K", "4K"},
          md \in StarModes, sl \in {NebulaSliders, EdgeSliders} }

ItemLists(prefix) ==
    { SubSeq(prefix, 1, k) : k \in 0..Len(prefix) }

PromptFacts ==
    {VNull} \cup
    { Facts(col, keep, avoid)
        : col \in {"red", "unknown", "Unknown", "UNKNOWN"},
          keep \in ItemLists(<<"core", "dust lanes">>),
          avoid \in ItemLists(<<"neon colours">>) }

InitPrompt ==
    /\ pc = "build"
    /\ req = MkRequest(TRUE, "file", "", "missing", TextUndefined)
    /\ params \in PromptParams
    /\ astroFacts \in PromptFacts
    /\ factsArg = <<>>
    /\ editReq = NoEditReq
    /\ response = NoResponse
    /\ rw = [o \in Ops |-> IdleFrame]
    /\ calls = <<>>
    /\ waits = <<>>
    /\ given = [retries |-> DefaultRetries, delay |-> DefaultDelay]
    /\ ui = InitialUI

\* runAstroEdit up to the request it hands to the retry wrapper
Edit_Build ==
    /\ pc = "build"
    /\ LET doc == buildEditPrompt(params, astroFacts)
       IN  editReq' = EditRequest(params, astroFacts, MimeType(req), doc.lines)
    /\ pc' = "built"
    /\ UNCHANGED <<req, params, astroFacts, factsArg, response, rw, calls,
                   waits, given, ui>>

SpecPrompt == InitPrompt /\ [][Edit_Build]_vars

---------------------------------------------------------------------------
(* The page in use: the user selects files, changes controls and starts    *)
(* runs, and the requests of the runs settle.                              *)

InitUI ==
    /\ pc = "page"
    /\ req = NoRequest
    /\ params = NullParams
    /\ astroFacts = VNull
    /\ factsArg = <<>>
    /\ editReq = NoEditReq
    /\ response = NoResponse
    /\ rw = [o \in Ops |-> IdleFrame]
    /\ calls = <<>>
    /\ waits = <<>>
    /\ given = [retries |-> DefaultRetries, delay |-> DefaultDelay]
    /\ ui = InitialUI

NextUI ==
    \/ \E sel \in FileSelections : onFileChange(sel)
    \/ \E cs \in UINames : setObjectName(cs)
    \/ \E id \in UIPresets : applyPresetDefaults(id)
    \/ \E ar \in UIAspects : setAspectRatio(ar)
    \/ \E sz \in UISizes : setImageSize(sz)
    \/ \E k \in SliderFields, v \in SliderInputs : setSlider(k, v)
    \/ \E m \in UIModes : setStarCorrectionMode(m)
    \/ \E b \in BOOLEAN : setScientificMode(b)
    \/ processImage
    \/ \E res \in UIResponses : Fetch_Settle(res)
    \/ Text_Settle
    \/ Json_Settle

SpecUI == InitUI /\ [][NextUI]_vars

\* every request settles and every body read settles; the user is under no
\* obligation to act
FairSpecUI ==
    /\ SpecUI
    /\ WF_vars(\E res \in UIResponses : Fetch_Settle(res))
    /\ WF_vars(Text_Settle)
    /\ WF_vars(Json_Settle)

---------------------------------------------------------------------------
(* Claims about retryWithBackoff, checked under SpecRetry/FairSpecRetry.   *)

\* invocation i of the wrapped operation failed with status 429
FailedRateLimited(i) ==
    /\ calls[i].kind = "threw"
    /\ calls[i].err.hasStatus
    /\ calls[i].err.status = 429

\* invocation i of the wrapped operation failed, and not with status 429
FailedOtherwise(i) ==
    /\ calls[i].kind = "threw"
    /\ ~(calls[i].err.hasStatus /\ calls[i].err.status = 429)

TwiceLimitedThenOk ==
    /\ given.retries = 3
    /\ Len(calls) >= 3
    /\ FailedRateLimited(1)
    /\ FailedRateLimited(2)
    /\ calls[3].kind = "returned"

\* C1: with the default budget of 3 retries, when the operation fails with
\* status 429 exactly twice and then succeeds, the wrapper returns the
\* operation's result, has invoked the operation exactly three times and has
\* waited exactly twice: the base delay, then twice the base delay.
C1_TwoRateLimitsThenSuccess ==
    TwiceLimitedThenOk =>
        /\ rw["op"].rpc = "returned"
        /\ rw["op"].val = calls[3].val
        /\ Len(calls) = 3
        /\ waits = << [op |-> "op", ms |-> given.delay],
                      [op |-> "op", ms |-> 2 * given.delay] >>

C1_Witness ==
    /\ TwiceLimitedThenOk
    /\ given.delay = 1000
    /\ rw["op"].rpc = "returned"
    /\ waits[1].ms + waits[2].ms = 3000

\* C2: a failure that is not a rate-limit error ends the wrapper at once: the
\* failed invocation is the last one, no wait follows it (so a first-attempt
\* failure means exactly one invocation and no wait at all), and the wrapper
\* throws that same error, whatever retry budget remains.
C2_OtherFailurePropagates ==
    \A i \in 1..Len(calls) :
        FailedOtherwise(i) =>
            /\ Len(calls) = i
            /\ Len(waits) = i - 1
            /\ rw["op"].rpc = "thrown"
            /\ rw["op"].err = calls[i].err

C2_Witness ==
    /\ Len(calls) = 1
    /\ FailedOtherwise(1)
    /\ given.retries = 3
    /\ rw["op"].retries = 3
    /\ rw["op"].rpc = "thrown"
    /\ waits = <<>>

AllRateLimited == \A i \in 1..Len(calls) : FailedRateLimited(i)
Finished(o) == rw[o].rpc \in {"returned", "thrown"}

C3_Shape ==
    /\ Len(calls) <= given.retries + 1
    /\ Len(waits) <= given.retries
    /\ \A i \in 1..Len(waits) : waits[i].ms = 2^(i - 1) * given.delay
    /\ (Finished("op") /\ AllRateLimited) =>
          /\ rw["op"].rpc = "thrown"
          /\ Len(calls) = given.retries + 1
          /\ Len(waits) = given.retries
          /\ rw["op"].err = calls[Len(calls)].err

\* C3: the wrapper always terminates; for an operation that always fails with
\* status 429, budget r and base delay d, it invokes the operation exactly
\* r+1 times, waits d, 2d, ..., 2^(r-1)*d between the attempts and then throws
\* the last rate-limit error, without a further wait.
C3_AlwaysRateLimitedTerminates ==
    /\ []C3_Shape
    /\ <>Finished("op")

C3_Witness ==
    /\ given = [retries |-> 3, delay |-> 1000]
    /\ AllRateLimited
    /\ rw["op"].rpc = "thrown"
    /\ Len(calls) = 4
    /\ waits = << [op |-> "op", ms |-> 1000], [op |-> "op", ms |-> 2000],
                  [op |-> "op", ms |-> 4000] >>

---------------------------------------------------------------------------
(* Claims about the POST handler, checked under Spec.                      *)

CallsOf(o) == { i \in 1..Len(calls) : calls[i].op = o }

\* C4: the image-edit call is never issued before the fact-lookup stage has
\* completed (all its retries included) or been skipped: the edit stage is
\* started only when the lookup's wrapper has returned, thrown or was never
\* entered, the two stages never have calls in flight together, and no
\* fact-lookup call follows an image-edit call.
C4_EditWaitsForFacts ==
    /\ (rw["edit"].rpc # "none" \/ CallsOf("edit") # {}) =>
            rw["facts"].rpc \in {"none", "returned", "thrown"}
    /\ ~(rw["facts"].rpc = "inflight" /\ rw["edit"].rpc = "inflight")
    /\ \A i \in CallsOf("edit") : \A j \in CallsOf("facts") : j < i

C4_Witness ==
    /\ rw["edit"].rpc = "inflight"
    /\ rw["facts"].rpc = "returned"
    /\ Cardinality(CallsOf("facts")) = 3
    /\ Len(waits) = 2

\* C5 as stated: at most two outbound calls per request, retries counted.
C5_AtMostTwoCalls == Len(calls) <= 2

\* C5, amended: per request at most 4 fact-lookup calls (one and three
\* retries) followed by at most 4 image-edit calls, eight in all; within a
\* stage every call but the last failed with status 429, so at most one
\* call of each stage gets a response that is used.
C5_CallBudget ==
    /\ Cardinality(CallsOf("facts")) <= 4
    /\ Cardinality(CallsOf("edit")) <= 4
    /\ Len(calls) <= 8
    /\ \A i \in CallsOf("edit") : \A j \in CallsOf("facts") : j < i
    /\ \A i \in 1..Len(calls) : \A j \in 1..Len(calls) :
          (i < j /\ calls[i].op = calls[j].op) => FailedRateLimited(i)

C5_Witness ==
    /\ pc = "done"
    /\ Len(calls) = 8
    /\ Cardinality(CallsOf("facts")) = 4
    /\ response.status = 200

NonSpace(cs) == { i \in 1..Len(cs) : cs[i] # " " }
\* the name is a string with more than one code unit left after trimming
LongAfterTrim(n) ==
    /\ ~n.isNull
    /\ \E i \in NonSpace(n.chars) : \E j \in NonSpace(n.chars) : i < j
\* the name without its leading and trailing white space
Trimmed(cs) ==
    LET first == CHOOSE i \in NonSpace(cs) : \A j \in NonSpace(cs) : i <= j
        last == CHOOSE i \in NonSpace(cs) : \A j \in NonSpace(cs) : j <= i
    IN  SubSeq(cs, first, last)
HasLine(doc, sec) == \E i \in 1..Len(doc) : doc[i].sec = sec

\* C6: the fact lookup is invoked if and only if the object name, trimmed,
\* is longer than 1; it then receives the trimmed name.  For a null, empty,
\* white-space or one-unit name no fact-lookup call is made and the prompt is
\* built with facts absent.
C6_LookupIffLongName ==
    /\ rw["facts"].rpc # "none" =>
          /\ LongAfterTrim(params.object_name)
          /\ factsArg = Trimmed(params.object_name.chars)
    /\ (LongAfterTrim(params.object_name)
            /\ (pc \in {"run_edit", "await_edit"} \/ editReq.built)) =>
          rw["facts"].rpc = "returned"
    /\ ~LongAfterTrim(params.object_name) =>
          /\ CallsOf("facts") = {}
          /\ editReq.built =>
                /\ editReq.astro = VNull
                /\ HasLine(editReq.lines, "fallback_generic")
                /\ ~HasLine(editReq.lines, "interpreted_name")

C6_Witness ==
    /\ params.object_name.chars = <<" ", "M", "M">>
    /\ factsArg = <<"M", "M">>
    /\ CallsOf("facts") # {}
    /\ editReq.built

\* the text of a response cannot be parsed as JSON
Unparseable(text) == ~text.defined \/ text.empty \/ ~text.wellFormed

\* C7: when the fact-lookup call gets a response whose text cannot be parsed
\* as JSON (empty and missing text included), the handler goes on to the
\* image edit with facts absent, and when the image edit succeeds it answers
\* with a success response whose astro_facts is null.
C7_UnparseableFactsDegrade ==
    \A i \in CallsOf("facts") :
        (calls[i].responded /\ Unparseable(calls[i].raw)) =>
            /\ rw["facts"].rpc = "returned"
            /\ rw["facts"].val = VNull
            /\ pc \in {"await_facts", "run_edit", "await_edit", "done"}
            /\ pc \in {"await_edit", "done"} =>
                  /\ editReq.built
                  /\ editReq.astro = VNull
                  /\ rw["edit"].rpc # "none"
            /\ (pc = "done" /\ rw["edit"].rpc = "returned") =>
                  /\ response.status = 200
                  /\ response.error = ""
                  /\ response.astro_facts = VNull
                  /\ response.edited_image_base64 = rw["edit"].val.s

C7_Witness ==
    /\ pc = "done"
    /\ CallsOf("facts") = {1}
    /\ calls[1].raw = TextMalformed
    /\ response.status = 200
    /\ response.astro_facts = VNull

IsStr(f) == f.t = "str"
IsArr(f) == f.t = "arr"
\* the value has the AstroFacts shape
IsAstroFacts(v) ==
    /\ v.t = "obj"
    /\ IsStr(v.o.object_name) /\ IsStr(v.o.object_type)
    /\ IsStr(v.o.canonical_colors)
    /\ IsArr(v.o.key_structures_to_preserve)
    /\ IsArr(v.o.unrealistic_edits_to_avoid)

\* C8: when the fact-lookup call returns valid JSON that is not of the
\* AstroFacts shape, the fact-lookup stage returns nothing (null), so the
\* request is handled as if no lookup had been attempted and does not fail.
C8_MisshapenFactsGiveNothing ==
    \A i \in CallsOf("facts") :
        (calls[i].responded /\ ~Unparseable(calls[i].raw)
            /\ ~IsAstroFacts(calls[i].raw.denotes)) =>
            /\ calls[i].kind = "returned"
            /\ calls[i].val = VNull
            /\ pc \in {"await_edit", "done"} => editReq.built

\* C9: when the fact lookup fails with an error that is not a rate limit, or
\* with rate-limit errors on all four attempts, the request fails: the
\* image-edit stage is never entered and never called, and the handler
\* answers with status 500.
C9_FactsFailureFailsRequest ==
    ( \/ \E i \in CallsOf("facts") : FailedOtherwise(i)
      \/ /\ Cardinality(CallsOf("facts")) = 4
         /\ \A i \in CallsOf("facts") : FailedRateLimited(i) ) =>
        /\ rw["facts"].rpc = "thrown"
        /\ rw["edit"].rpc = "none"
        /\ CallsOf("edit") = {}
        /\ ~editReq.built
        /\ pc \in {"await_facts", "done"}
        /\ pc = "done" => response.status = 500

C9_Witness ==
    /\ pc = "done"
    /\ response.status = 500
    /\ Cardinality(CallsOf("facts")) = 4
    /\ \A i \in CallsOf("facts") : FailedRateLimited(i)

---------------------------------------------------------------------------
(* Claims about buildEditPrompt, checked under SpecPrompt.                 *)

Count(doc, sec) == Cardinality({ i \in 1..Len(doc) : doc[i].sec = sec })

\* C10: the document holds exactly one scientific-mode block: the ON block
\* when scientific_mode is true and the OFF block otherwise, never both and
\* never neither.
C10_OneScientificBlock ==
    editReq.built =>
        IF params.scientific_mode
        THEN /\ Count(editReq.lines, "scientific_on") = 1
             /\ Count(editReq.lines, "scientific_off") = 0
        ELSE /\ Count(editReq.lines, "scientific_on") = 0
             /\ Count(editReq.lines, "scientific_off") = 1

C10_Witness ==
    /\ editReq.built
    /\ ~params.scientific_mode
    /\ Truthy(astroFacts)
    /\ Count(editReq.lines, "scientific_off") = 1

PresetBlocks ==
    { "preset_nebula", "preset_galaxy", "preset_cluster", "preset_widefield",
      "preset_planetary", "preset_lunar", "preset_solar", "preset_generic" }
\* the narrative block a preset identifier stands for
BlockOf(id) ==
    CASE id = "nebula" -> "preset_nebula"
      [] id = "galaxy" -> "preset_galaxy"
      [] id = "cluster" -> "preset_cluster"
      [] id = "widefield" -> "preset_widefield"
      [] id = "planetary" -> "preset_planetary"
      [] id = "lunar" -> "preset_lunar"
      [] id = "solar" -> "preset_solar"
      [] OTHER -> "preset_generic"

\* C11: for every preset identifier the document holds exactly one preset
\* narrative block: the block of that preset for nebula, galaxy, cluster,
\* widefield, planetary, lunar and solar, and none of the others; the generic
\* guidance line for "generic" and for an unrecognized identifier.
C11_OnePresetBlock ==
    editReq.built =>
        \A b \in PresetBlocks :
            Count(editReq.lines, b) =
                IF b = BlockOf(params.preset_id) THEN 1 ELSE 0

C11_Witness ==
    /\ editReq.built
    /\ params.preset_id = "nebula"
    /\ Count(editReq.lines, "preset_nebula") = 1
    /\ Count(editReq.lines, "preset_lunar") = 0
    /\ Count(editReq.lines, "preset_solar") = 0

\* the place of a section in the fixed order of the document
Rank(sec) ==
    CASE sec = "role_expert" -> 1
      [] sec = "role_task" -> 2
      [] sec = "target_object" -> 3
      [] sec = "facts_header" -> 4
      [] sec = "fallback_generic" -> 4
      [] sec = "interpreted_name" -> 5
      [] sec = "object_type" -> 6
      [] sec = "canonical_colours" -> 7
      [] sec = "structures_header" -> 8
      [] sec = "structure_item" -> 9
      [] sec = "avoid_header" -> 10
      [] sec = "avoid_item" -> 11
      [] sec = "workflow" -> 12
      [] sec = "sliders_header" -> 13
      [] sec = "slider_background" -> 14
      [] sec = "slider_stretch" -> 15
      [] sec = "slider_noise" -> 16
      [] sec = "slider_star" -> 17
      [] sec = "slider_saturation" -> 18
      [] sec = "slider_sky" -> 19
      [] sec = "sky_rubric" -> 20
      [] sec = "star_mode_rubric" -> 21
      [] sec = "star_strength_rubric" -> 22
      [] sec = "scientific_on" -> 23
      [] sec = "scientific_off" -> 23
      [] sec = "preset_line" -> 24
      [] sec \in PresetBlocks -> 25
      [] sec = "closing" -> 26
      [] OTHER -> 0

FixedSections ==
    { "role_expert", "role_task", "workflow", "sliders_header",
      "slider_background", "slider_stretch", "slider_noise", "slider_star",
      "slider_saturation", "slider_sky", "sky_rubric", "star_mode_rubric",
      "star_strength_rubric", "preset_line", "closing" }

\* C12: the sections of the document always come in the same order: role,
\* target line, facts block or fallback, workflow, the six slider lines, the
\* sky rubric, the star-mode rubric, the strength rubric, the scientific
\* block, the preset block, the closing line.  No section is out of place or
\* repeated (only the bullets of a list repeat), and every unconditional
\* section is there exactly once.
C12_FixedSectionOrder ==
    editReq.built =>
        LET doc == editReq.lines
        IN  /\ \A i \in 1..Len(doc) : Rank(doc[i].sec) > 0
            /\ \A i \in 1..(Len(doc) - 1) :
                  \/ Rank(doc[i].sec) < Rank(doc[i + 1].sec)
                  \/ /\ doc[i].sec = doc[i + 1].sec
                     /\ doc[i].sec \in {"structure_item", "avoid_item"}
            /\ \A sec \in FixedSections : Count(doc, sec) = 1
            /\ doc[1].sec = "role_expert"
            /\ doc[Len(doc)].sec = "closing"

C12_Witness ==
    /\ editReq.built
    /\ Count(editReq.lines, "target_object") = 1
    /\ Count(editReq.lines, "structure_item") = 2
    /\ Count(editReq.lines, "avoid_item") = 1
    /\ Count(editReq.lines, "canonical_colours") = 1
    /\ Len(editReq.lines) = 27

\* the strings interpolated into the lines of section sec, in document order
ItemsOf(doc, sec) ==
    LET sel == SelectSeq(doc, LAMBDA l : l.sec = sec)
    IN  [i \in 1..Len(sel) |-> sel[i].s]

\* C13: with facts present, the "structures to preserve" section (its header
\* and one bullet per item, in list order) is in the document if and only if
\* key_structures_to_preserve is not empty, and likewise the "edits to avoid"
\* section for unrealistic_edits_to_avoid; for an empty list neither the
\* header nor a bullet of that section is there.
C13_ListSectionsIffNonEmpty ==
    (editReq.built /\ Truthy(astroFacts)) =>
        LET doc == editReq.lines
            keep == astroFacts.o.key_structures_to_preserve.a
            avoid == astroFacts.o.unrealistic_edits_to_avoid.a
        IN  /\ Count(doc, "structures_header") = IF keep = <<>> THEN 0 ELSE 1
            /\ ItemsOf(doc, "structure_item") = keep
            /\ Count(doc, "avoid_header") = IF avoid = <<>> THEN 0 ELSE 1
            /\ ItemsOf(doc, "avoid_item") = avoid

C13_Witness ==
    /\ editReq.built
    /\ Truthy(astroFacts)
    /\ astroFacts.o.key_structures_to_preserve.a = <<>>
    /\ astroFacts.o.unrealistic_edits_to_avoid.a # <<>>
    /\ Count(editReq.lines, "structures_header") = 0
    /\ Count(editReq.lines, "avoid_header") = 1

\* the string is "unknown" up to letter case
IsUnknownAnyCase(x) == x \in {"unknown", "Unknown", "UNKNOWN"}

\* C14: with facts present, the canonical-colours line is left out if and
\* only if canonical_colors is "unknown" in any letter case; for every other
\* value the line is there with that value; the interpreted-name and
\* object-type lines are there in both cases.
C14_ColoursOmittedIffUnknown ==
    (editReq.built /\ Truthy(astroFacts)) =>
        LET doc == editReq.lines
            col == astroFacts.o.canonical_colors.s
        IN  /\ ItemsOf(doc, "canonical_colours") =
                  IF IsUnknownAnyCase(col) THEN << >> ELSE << col >>
            /\ Count(doc, "interpreted_name") = 1
            /\ Count(doc, "object_type") = 1

C14_Witness ==
    /\ editReq.built
    /\ Truthy(astroFacts)
    /\ astroFacts.o.canonical_colors.s = "Unknown"
    /\ Count(editReq.lines, "canonical_colours") = 0
    /\ Count(editReq.lines, "interpreted_name") = 1

\* C15: the request configuration of runAstroEdit has no aspect-ratio
\* directive when aspect_ratio is "auto" and, for every other enumerated
\* value, an aspect-ratio directive equal to it; the output-size directive is
\* always there and equals image_size.
C15_AspectRatioPassThrough ==
    editReq.built =>
        /\ editReq.imageSize = params.image_size
        /\ editReq.imageSize # ""
        /\ params.aspect_ratio = "auto" =>
              (~editReq.hasAspectRatio /\ editReq.aspectRatio = "")
        /\ params.aspect_ratio # "auto" =>
              (editReq.hasAspectRatio /\ editReq.aspectRatio = params.aspect_ratio)

C15_Witness ==
    /\ editReq.built
    /\ params.aspect_ratio = "auto"
    /\ params.image_size = "4K"
    /\ ~editReq.hasAspectRatio
    /\ editReq.imageSize = "4K"

---------------------------------------------------------------------------
(* Further claims about the POST handler, checked under Spec and FairSpec. *)

\* C16: for a request whose object name is null, the prompt sent to the
\* image edit has the "generic deep-sky data" fallback sentence and neither
\* an "Interpreted name" line nor a "Target object" line; in every prompt
\* the fallback sentence is there exactly when facts are absent and the
\* "Interpreted name" line exactly when facts are present.
C16_FallbackIffNoFacts ==
    editReq.built =>
        /\ params.object_name.isNull =>
              /\ HasLine(editReq.lines, "fallback_generic")
              /\ ~HasLine(editReq.lines, "interpreted_name")
              /\ ~HasLine(editReq.lines, "target_object")
        /\ HasLine(editReq.lines, "fallback_generic") <=> ~IsAstroFacts(editReq.astro)
        /\ HasLine(editReq.lines, "interpreted_name") <=> IsAstroFacts(editReq.astro)

C16_Witness ==
    /\ editReq.built
    /\ IsAstroFacts(editReq.astro)
    /\ HasLine(editReq.lines, "interpreted_name")
    /\ HasLine(editReq.lines, "target_object")
    /\ rw["edit"].rpc = "inflight"

\* the response has no first candidate, or one without content
NoFirstCandidate(b) == b = << >> \/ ~b[1].hasContent
ImageParts(ps) == { k \in 1..Len(ps) : ps[k].inline /\ ps[k].data # "" }
\* the first candidate has content, and no part of it carries image data
NoImagePart(b) == ~NoFirstCandidate(b) /\ ImageParts(b[1].parts) = {}

WaitsOf(o) == { k \in 1..Len(waits) : waits[k].op = o }

\* what follows an image-edit call i that failed with message msg: it is
\* the last call, is not retried, and the handler answers 500 with msg
FatalEditFailure(i, msg) ==
    /\ calls[i].kind = "threw"
    /\ calls[i].err.message = msg
    /\ i = Len(calls)
    /\ Cardinality(WaitsOf("edit")) = Cardinality(CallsOf("edit")) - 1
    /\ rw["edit"].rpc = "thrown"
    /\ rw["edit"].err = calls[i].err
    /\ pc \in {"await_edit", "done"}
    /\ pc = "done" =>
          /\ response.status = 500
          /\ response.error = msg
          /\ response.edited_image_base64 = ""

\* C17: when the image-edit response has no first candidate (or one without
\* content), or a first candidate none of whose parts carries image data,
\* the stage fails with an explicit error, a different one in each case; the
\* failure is not retried, and the handler answers 500 with that message,
\* not a success with an empty image.
C17_StructuralErrorsAreFatal ==
    \A i \in CallsOf("edit") :
        /\ (calls[i].responded /\ NoFirstCandidate(calls[i].body)) =>
              FatalEditFailure(i, "No candidates returned from Nano Banana Pro.")
        /\ (calls[i].responded /\ NoImagePart(calls[i].body)) =>
              FatalEditFailure(i, "No image part returned from Nano Banana Pro.")

C17_Witness ==
    /\ pc = "done"
    /\ response.status = 500
    /\ response.error = "No image part returned from Nano Banana Pro."
    /\ Cardinality(CallsOf("edit")) = 2
    /\ rw["edit"].retries = 2

\* C18: a request whose file field is missing or no file, or whose parameters
\* document is missing or malformed, is answered with a 4xx status and an
\* error body, and no outbound call is made for it.
C18_InvalidRequestIsClientError ==
    ( /\ pc = "done"
      /\ req.formOk
      /\ \/ req.file # "file"
         \/ req.payload.kind # "string"
         \/ Unparseable(req.payload.text) ) =>
        /\ response.status \in 400..499
        /\ response.error # ""
        /\ calls = << >>

C19_Shape ==
    /\ (pc = "done") <=> (response # NoResponse)
    /\ pc = "done" =>
          \/ /\ response.status = 200
             /\ response.error = ""
             /\ response.edited_image_base64 # ""
             /\ response.astro_facts = astroFacts
          \/ /\ response.status \in 400..599
             /\ response.error # ""
             /\ response.edited_image_base64 = ""

\* C19: every execution of the handler ends with exactly one response: a
\* success with a non-empty edited_image_base64 and the astro_facts value, or
\* an error with one message and a status that is not 2xx; no failure of
\* form parsing, fact lookup, prompt building or image edit escapes the
\* handler or yields a success status.
C19_AlwaysOneResponse ==
    /\ []C19_Shape
    /\ [][pc # "done"]_vars
    /\ <>(pc = "done")

C19_Witness ==
    /\ pc = "done"
    /\ response.status = 500
    /\ response.error = "Unknown error"
    /\ CallsOf("edit") # {}

\* an image is only in a candidate after the first
ImageOnlyInLaterCandidate(b) ==
    /\ Len(b) > 1
    /\ ~b[1].hasContent \/ ImageParts(b[1].parts) = {}
    /\ \E k \in 2..Len(b) : b[k].hasContent /\ ImageParts(b[k].parts) # {}

\* the first candidate has content and an image part: the call returns the
\* data of the first such part
ReturnsFirstImage(i) ==
    LET b == calls[i].body
    IN  (~NoFirstCandidate(b) /\ ImageParts(b[1].parts) # {}) =>
            LET first == CHOOSE k \in ImageParts(b[1].parts) :
                            \A m \in ImageParts(b[1].parts) : k <= m
            IN  /\ calls[i].kind = "returned"
                /\ calls[i].val.s = b[1].parts[first].data

\* C20 as stated: the first image part of the first candidate is returned,
\* and an image only in a later candidate gives the "no image part" error.
C20_LaterImageGivesNoImagePart ==
    \A i \in CallsOf("edit") :
        calls[i].responded =>
            /\ ReturnsFirstImage(i)
            /\ ImageOnlyInLaterCandidate(calls[i].body) =>
                  /\ calls[i].kind = "threw"
                  /\ calls[i].err.message =
                        "No image part returned from Nano Banana Pro."

\* C20, amended: the first image part of the first candidate is returned,
\* parts before it are skipped, later parts and other candidates are
\* ignored; an image only in a later candidate gives an error, never that
\* image: "no image part" when the first candidate has content, "no
\* candidates" when it has none.
C20_FirstImageOfFirstCandidate ==
    \A i \in CallsOf("edit") :
        calls[i].responded =>
            /\ ReturnsFirstImage(i)
            /\ ImageOnlyInLaterCandidate(calls[i].body) =>
                  /\ calls[i].kind = "threw"
                  /\ calls[i].err.message =
                        IF calls[i].body[1].hasContent
                        THEN "No image part returned from Nano Banana Pro."
                        ELSE "No candidates returned from Nano Banana Pro."

C20_Witness ==
    /\ pc = "done"
    /\ response.status = 200
    /\ response.edited_image_base64 = "IMG1"
    /\ \E i \in CallsOf("edit") :
          /\ Len(calls[i].body) = 1
          /\ Len(calls[i].body[1].parts) = 4

---------------------------------------------------------------------------
(* The retry budgets of the two stages of one request, checked under Spec. *)

RECURSIVE Pow2(_)
Pow2(k) == IF k = 0 THEN 1 ELSE 2 * Pow2(k - 1)

\* the sleeps of operation o, in the order they elapsed
WaitSeq(o) == SelectSeq(waits, LAMBDA w : w.op = o)

\* C21: the two stages have independent retry budgets within one request.
\* Whatever the fact lookup consumed, the image-edit stage enters its wrapper
\* with 3 retries and a delay of 1000 ms: once entered, its remaining
\* retries are 3 less its own sleeps, its delay is 1000 ms doubled once per
\* own sleep, its k-th sleep lasts 1000 * 2^(k-1) ms, and it makes up to
\* four calls.
C21_IndependentBudgets ==
    LET e == WaitSeq("edit")
    IN  /\ rw["edit"].rpc # "none" =>
              /\ rw["edit"].retries = DefaultRetries - Len(e)
              /\ rw["edit"].delay = DefaultDelay * Pow2(Len(e))
        /\ \A k \in 1..Len(e) : e[k].ms = DefaultDelay * Pow2(k - 1)
        /\ Cardinality(CallsOf("edit")) <= DefaultRetries + 1
        /\ (rw["edit"].rpc = "thrown" /\ IsRateLimit(rw["edit"].err)) =>
              Cardinality(CallsOf("edit")) = DefaultRetries + 1

\* the lookup used up its three retries and succeeded on its fourth call;
\* the edit stage then slept 1000, 2000 and 4000 ms and made four calls
C21_Witness ==
    /\ Len(WaitSeq("facts")) = DefaultRetries
    /\ rw["facts"].rpc = "returned"
    /\ rw["facts"].retries = 0
    /\ Len(WaitSeq("edit")) = DefaultRetries
    /\ WaitSeq("edit")[1].ms = DefaultDelay
    /\ Cardinality(CallsOf("edit")) = DefaultRetries + 1
    /\ rw["edit"].rpc \in {"returned", "thrown"}

---------------------------------------------------------------------------
(* What the prompt document does not depend on, checked under SpecPrompt.  *)

\* the EditParams that differ from p at most in star_correction_mode,
\* aspect_ratio and image_size
SameButModeAspectSize(p) ==
    { [p EXCEPT !.star_correction_mode = md, !.aspect_ratio = ar,
                !.image_size = sz]
        : md \in StarModes, ar \in {"auto", "16:9", "1:1"},
          sz \in {"1K", "2K", "4K"} }

---------------------------------------------------------------------------
(* Claims about the page, checked under SpecUI and FairSpecUI.             *)

\* the run in flight has failed: its fetch was rejected, its response is not
\* OK, its body is not JSON or its body carries an error
RunFails(u, v) ==
    \/ u.run.pc = "fetch" /\ v.run.pc = "idle"
    \/ u.run.pc = "text"
    \/ u.run.pc = "json" /\ (~u.run.res.parses \/ u.run.res.error # "")

\* a step that ends the run in flight
RunEnds == ui.isProcessing /\ ui.run.pc # "idle" /\ ui'.run.pc = "idle"

\* C25: every run that sets the processing flag eventually clears it, however
\* its request settles (fetch rejected, non-OK status, error body, body that
\* is not JSON, success).  The flag is set exactly while a run is in flight;
\* the step that ends a run clears it and sets an error message if the run
\* failed and leaves the error as it is if the run succeeded.  A run started
\* with no file selected sets the error "Please upload an astro image
\* first.", sends no request and does not set the flag.
C25_ProcessingFlagCleared ==
    /\ ui.isProcessing ~> ~ui.isProcessing
    /\ [](ui.isProcessing <=> ui.run.pc # "idle")
    /\ [](ui.file = "" => ~ui.isProcessing)
    /\ [][ RunEnds =>
             /\ ~ui'.isProcessing
             /\ RunFails(ui, ui') => ui'.error # ""
             /\ ~RunFails(ui, ui') => ui'.error = ui.error ]_vars
    /\ [][ (processImage /\ ui.file = "") =>
             /\ ui'.error = "Please upload an astro image first."
             /\ ui'.run = IdleRun
             /\ ~ui'.isProcessing ]_vars

\* a run that got a 502 with an empty body has ended: the flag is cleared and
\* the error is set
C25_Witness ==
    /\ ui.file = "A"
    /\ ~ui.isProcessing
    /\ ui.run.pc = "idle"
    /\ ui.error = "HTTP 502"
    /\ ui.editedUrl = ""

\* the controls of the page and the selected file
ControlFields ==
    SliderFields \cup {"presetId", "scientificMode", "starCorrectionMode",
                       "objectName", "aspectRatio", "imageSize"}
FileFields == {"file", "originalUrl"}

\* every field of F has in the next state the value it has now
Keeps(F) == \A f \in F : ui'[f] = ui[f]

\* C22: selecting a preset sets the preset id, the six sliders, scientific
\* mode and star-correction mode to the values PRESET_DEFAULTS has for it and
\* leaves object name, aspect ratio, image size and the selected file as
\* they are; a change of one slider, of scientific mode or of
\* star-correction mode sets that one value and leaves the preset id, every
\* other control and the file as they are; and the payload processImage
\* submits carries, field for field, the values the controls have then.
C22_PresetThenIndependentEdits ==
    [][ /\ \A id \in PresetIds :
            applyPresetDefaults(id) =>
                /\ ui'.presetId = id
                /\ ui'.noiseStrength = PRESET_DEFAULTS[id].sliders.noise
                /\ ui'.stretchStrength = PRESET_DEFAULTS[id].sliders.stretch
                /\ ui'.starReduction = PRESET_DEFAULTS[id].sliders.star
                /\ ui'.saturation = PRESET_DEFAULTS[id].sliders.sat
                /\ ui'.backgroundNeutralization = PRESET_DEFAULTS[id].sliders.bg
                /\ ui'.skyDarkening = PRESET_DEFAULTS[id].sliders.sky
                /\ ui'.scientificMode = PRESET_DEFAULTS[id].scientific_mode
                /\ ui'.starCorrectionMode = PRESET_DEFAULTS[id].star_correction_mode
                /\ Keeps({"objectName", "aspectRatio", "imageSize"} \cup FileFields)
        /\ \A k \in SliderFields : \A v \in SliderInputs :
            setSlider(k, v) =>
                /\ ui'[k] = v
                /\ Keeps((ControlFields \ {k}) \cup FileFields)
        /\ \A b \in BOOLEAN :
            setScientificMode(b) =>
                /\ ui'.scientificMode = b
                /\ Keeps((ControlFields \ {"scientificMode"}) \cup FileFields)
        /\ \A m \in StarModes :
            setStarCorrectionMode(m) =>
                /\ ui'.starCorrectionMode = m
                /\ Keeps((ControlFields \ {"starCorrectionMode"}) \cup FileFields)
        /\ (processImage /\ ui.file # "") =>
                /\ ui'.run.pc = "fetch"
                /\ ui'.run.file = ui.file
                /\ ui'.run.payload.preset_id = ui.presetId
                /\ ui'.run.payload.noise_strength = ui.noiseStrength
                /\ ui'.run.payload.stretch_strength = ui.stretchStrength
                /\ ui'.run.payload.star_reduction = ui.starReduction
                /\ ui'.run.payload.saturation = ui.saturation
                /\ ui'.run.payload.background_neutralization =
                        ui.backgroundNeutralization
                /\ ui'.run.payload.sky_darkening = ui.skyDarkening
                /\ ui'.run.payload.scientific_mode = ui.scientificMode
                /\ ui'.run.payload.star_correction_mode = ui.starCorrectionMode
                /\ ui'.run.payload.aspect_ratio = ui.aspectRatio
                /\ ui'.run.payload.image_size = ui.imageSize
                /\ Keeps(ControlFields \cup FileFields) ]_vars

\* the preset "lunar" was selected, star reduction was then set to 0, and the
\* payload in flight carries lunar's values but for star reduction
C22_Witness ==
    /\ ui.file = "A"
    /\ ui.presetId = "lunar"
    /\ ui.starReduction = 0
    /\ ui.skyDarkening = 82
    /\ ui.starCorrectionMode = "none"
    /\ ui.run.pc = "fetch"
    /\ ui.run.payload.preset_id = "lunar"
    /\ ui.run.payload.star_reduction = 0
    /\ ui.run.payload.saturation = 15
    /\ ui.run.payload.star_correction_mode = "none"

\* C24: an edited result and astro facts are displayed only for the
\* currently selected file: whenever editedUrl or astroFacts is set, it
\* answers a request that was started for the file that is selected now.
C24_ResultsOfSelectedFileOnly ==
    /\ ui.editedUrl # "" => ui.editedUrl = ui.file
    /\ ui.astroFacts # "" => ui.astroFacts = ui.file

=============================================================================
